---- MODULE Spec2Model ----
(***************************************************************************)
(* Hospital management system: database.py (SQLite wrapper), utils.py      *)
(* (validators) and app.py (Streamlit pages).                              *)
(*                                                                         *)
(* Python strings are modelled as sequences of one-character strings, so   *)
(* that parsing, splitting, stripping and SQLite's text ordering are       *)
(* computed character by character.  Python's None and SQL NULL are the    *)
(* value Null, a sequence no string can equal.                             *)
(***************************************************************************)
EXTENDS Integers, Sequences, FiniteSets, TLC

VARIABLES
    doctors,        \* table doctors: set of rows
    patients,       \* table patients: set of rows
    appointments,   \* table appointments: set of rows
    seqDoctors,     \* sqlite_sequence entry of doctors (AUTOINCREMENT)
    seqPatients,    \* sqlite_sequence entry of patients
    seqAppts,       \* sqlite_sequence entry of appointments
    lastcall,       \* the database call made last and what it returned
    pc,             \* per session: position in the script run of app.py
    form,           \* per session: locals of the book_appointment run
    arg_t,          \* utils: the time string handed to a validator
    arg_w,          \* utils: the working_hours value handed to the check
    util_ret,       \* utils: what the validator returned
    session_state,  \* per session: st.session_state["editing_patient"], 0 = key absent
    edit_form,      \* per session: patient whose edit form the last run rendered, 0 = none
    click           \* the Patients page interaction handled last

vars == <<doctors, patients, appointments, seqDoctors, seqPatients, seqAppts,
          lastcall, pc, form, arg_t, arg_w, util_ret,
          session_state, edit_form, click>>

dbvars == <<doctors, patients, appointments, seqDoctors, seqPatients, seqAppts,
            lastcall>>
uivars == <<pc, form>>
utilvars == <<arg_t, arg_w, util_ret>>
editvars == <<session_state, edit_form, click>>

----------------------------------------------------------------------------
(* Strings *)

Null == <<"None">>

Digits == {"0", "1", "2", "3", "4", "5", "6", "7", "8", "9"}

DigitVal(c) ==
    CASE c = "0" -> 0 [] c = "1" -> 1 [] c = "2" -> 2 [] c = "3" -> 3
      [] c = "4" -> 4 [] c = "5" -> 5 [] c = "6" -> 6 [] c = "7" -> 7
      [] c = "8" -> 8 [] c = "9" -> 9

\* str.strip() removes leading and trailing whitespace
Whitespace == {" "}

RECURSIVE LStrip(_)
LStrip(s) ==
    IF s # <<>> /\ Head(s) \in Whitespace THEN LStrip(Tail(s)) ELSE s

RECURSIVE RStrip(_)
RStrip(s) ==
    IF s # <<>> /\ s[Len(s)] \in Whitespace
    THEN RStrip(SubSeq(s, 1, Len(s) - 1))
    ELSE s

Strip(s) == LStrip(RStrip(s))

\* str.split(sep): the list of the pieces between the separators
RECURSIVE SplitAcc(_, _, _)
SplitAcc(s, sep, cur) ==
    IF s = <<>> THEN <<cur>>
    ELSE IF Head(s) = sep THEN <<cur>> \o SplitAcc(Tail(s), sep, <<>>)
    ELSE SplitAcc(Tail(s), sep, Append(cur, Head(s)))

Split(s, sep) == SplitAcc(s, sep, <<>>)

----------------------------------------------------------------------------
(* utils.py *)

MSG_TIME == "Time must be in HH:MM 24-hour format (e.g., 09:30)."
MSG_DATE == "Date must be in YYYY-MM-DD format (e.g., 2025-11-26)."
MSG_WH_FORMAT == "Doctor working hours must be in 'HH:MM-HH:MM' format."
MSG_WH_OUTSIDE == "Appointment time is outside doctor's working hours."
MSG_WH_INVALID == "Invalid working hours or appointment time format."
NoMsg == "None"

IsDigitAt(s, i) == i <= Len(s) /\ s[i] \in Digits

\* %H of strptime is the regular expression 2[0-3]|[0-1]\d|\d: the lengths
\* of the alternatives that match at the start of s, in the order tried
HourAlts(s) ==
    (IF IsDigitAt(s, 1) /\ IsDigitAt(s, 2) /\ s[1] = "2" /\ s[2] \in {"0", "1", "2", "3"}
     THEN <<2>> ELSE <<>>)
    \o (IF IsDigitAt(s, 1) /\ IsDigitAt(s, 2) /\ s[1] \in {"0", "1"}
        THEN <<2>> ELSE <<>>)
    \o (IF IsDigitAt(s, 1) THEN <<1>> ELSE <<>>)

\* %M of strptime is [0-5]\d|\d, tried at position p
MinuteAlts(s, p) ==
    (IF IsDigitAt(s, p) /\ IsDigitAt(s, p + 1) /\ s[p] \in {"0", "1", "2", "3", "4", "5"}
     THEN <<2>> ELSE <<>>)
    \o (IF IsDigitAt(s, p) THEN <<1>> ELSE <<>>)

Number(s, from, n) ==
    IF n = 1 THEN DigitVal(s[from])
    ELSE 10 * DigitVal(s[from]) + DigitVal(s[from + 1])

NoTime == [ok |-> FALSE, hour |-> 0, minute |-> 0]

\* the first overall match of %H:%M the backtracking matcher finds
RECURSIVE FirstMatch(_, _)
FirstMatch(s, halts) ==
    IF halts = <<>> THEN [found |-> FALSE, hlen |-> 0, mlen |-> 0]
    ELSE LET h == Head(halts)
             malts == MinuteAlts(s, h + 2)
         IN  IF h + 1 <= Len(s) /\ s[h + 1] = ":" /\ malts # <<>>
             THEN [found |-> TRUE, hlen |-> h, mlen |-> Head(malts)]
             ELSE FirstMatch(s, Tail(halts))

\* datetime.strptime(t, "%H:%M").time(); ok = FALSE stands for the exception
\* (TypeError for None, ValueError for no match or unconverted data)
parse_time(t) ==
    IF t = Null THEN NoTime
    ELSE LET m == FirstMatch(t, HourAlts(t))
         IN  IF ~m.found THEN NoTime
             ELSE IF m.hlen + 1 + m.mlen # Len(t) THEN NoTime
             ELSE [ok |-> TRUE,
                   hour |-> Number(t, 1, m.hlen),
                   minute |-> Number(t, m.hlen + 2, m.mlen)]

validate_time_str(t) ==
    IF parse_time(t).ok THEN <<TRUE, NoMsg>> ELSE <<FALSE, MSG_TIME>>

\* %m of strptime is 1[0-2]|0[1-9]|[1-9], tried at position p
MonthAlts(s, p) ==
    (IF IsDigitAt(s, p) /\ IsDigitAt(s, p + 1)
        /\ (\/ s[p] = "1" /\ s[p + 1] \in {"0", "1", "2"}
            \/ s[p] = "0" /\ s[p + 1] # "0")
     THEN <<2>> ELSE <<>>)
    \o (IF IsDigitAt(s, p) /\ s[p] # "0" THEN <<1>> ELSE <<>>)

\* %d of strptime is 3[01]|[12]\d|0[1-9]|[1-9]| [1-9], tried at position p
DayAlts(s, p) ==
    (IF IsDigitAt(s, p) /\ IsDigitAt(s, p + 1)
        /\ (\/ s[p] = "3" /\ s[p + 1] \in {"0", "1"}
            \/ s[p] \in {"1", "2"}
            \/ s[p] = "0" /\ s[p + 1] # "0")
     THEN <<2>> ELSE <<>>)
    \o (IF IsDigitAt(s, p) /\ s[p] # "0" THEN <<1>> ELSE <<>>)
    \o (IF p + 1 <= Len(s) /\ s[p] = " " /\ IsDigitAt(s, p + 1) /\ s[p + 1] # "0"
        THEN <<2>> ELSE <<>>)

RECURSIVE FirstDateMatch(_, _)
FirstDateMatch(s, malts) ==
    IF malts = <<>> THEN [found |-> FALSE, mlen |-> 0, dlen |-> 0]
    ELSE LET m == Head(malts)
             dalts == DayAlts(s, 6 + m + 1)
         IN  IF 6 + m <= Len(s) /\ s[6 + m] = "-" /\ dalts # <<>>
             THEN [found |-> TRUE, mlen |-> m, dlen |-> Head(dalts)]
             ELSE FirstDateMatch(s, Tail(malts))

IsLeap(y) == (y % 4 = 0 /\ y % 100 # 0) \/ y % 400 = 0

DaysIn(y, m) ==
    IF m = 2 THEN (IF IsLeap(y) THEN 29 ELSE 28)
    ELSE IF m \in {4, 6, 9, 11} THEN 30 ELSE 31

DayNumber(s, from, n) ==
    IF n = 1 THEN DigitVal(s[from])
    ELSE IF s[from] = " " THEN DigitVal(s[from + 1])
    ELSE 10 * DigitVal(s[from]) + DigitVal(s[from + 1])

\* datetime.strptime(d, "%Y-%m-%d") succeeds
DateParses(d) ==
    /\ d # Null
    /\ \A i \in 1..4 : IsDigitAt(d, i)
    /\ Len(d) >= 5
    /\ d[5] = "-"
    /\ LET m == FirstDateMatch(d, MonthAlts(d, 6))
       IN  /\ m.found
           /\ 6 + m.mlen + m.dlen = Len(d)
           /\ LET y == 1000 * DigitVal(d[1]) + 100 * DigitVal(d[2])
                         + 10 * DigitVal(d[3]) + DigitVal(d[4])
                  mo == Number(d, 6, m.mlen)
                  da == DayNumber(d, 6 + m.mlen + 1, m.dlen)
              IN  y >= 1 /\ da <= DaysIn(y, mo)

validate_date_str(d) ==
    IF DateParses(d) THEN <<TRUE, NoMsg>> ELSE <<FALSE, MSG_DATE>>

DigitChar(n) ==
    CASE n = 0 -> "0" [] n = 1 -> "1" [] n = 2 -> "2" [] n = 3 -> "3"
      [] n = 4 -> "4" [] n = 5 -> "5" [] n = 6 -> "6" [] n = 7 -> "7"
      [] n = 8 -> "8" [] n = 9 -> "9"

Pad2(n) == <<DigitChar(n \div 10), DigitChar(n % 10)>>

\* date.strftime("%Y-%m-%d") of a date the date_input widget can deliver
\* (within ten years of today, so the year has four digits)
strftime(d) ==
    Pad2(d.year \div 100) \o Pad2(d.year % 100) \o <<"-">> \o Pad2(d.month)
        \o <<"-">> \o Pad2(d.day)

\* datetime.time comparison: by hour, then minute
TimeLE(a, b) == a.hour < b.hour \/ (a.hour = b.hour /\ a.minute <= b.minute)
TimeLT(a, b) == a.hour < b.hour \/ (a.hour = b.hour /\ a.minute < b.minute)

InInterval_closed(start, t, end) == TimeLE(start, t) /\ TimeLE(t, end)

\* start <= appt_t < end
InInterval(start, t, end) == TimeLE(start, t) /\ TimeLT(t, end)

time_in_working_hours(working_hours, appointment_time) ==
    IF working_hours = Null \/ working_hours = <<>> THEN <<TRUE, NoMsg>>
    ELSE LET parts == Split(working_hours, "-")
         IN  IF Len(parts) # 2 THEN <<FALSE, MSG_WH_FORMAT>>
             ELSE LET start == parse_time(Strip(parts[1]))
                      end == parse_time(Strip(parts[2]))
                      appt_t == parse_time(appointment_time)
                  IN  IF ~start.ok \/ ~end.ok \/ ~appt_t.ok
                      THEN <<FALSE, MSG_WH_INVALID>>
                      ELSE IF InInterval(start, appt_t, end)
                      THEN <<TRUE, NoMsg>>
                      ELSE <<FALSE, MSG_WH_OUTSIDE>>

----------------------------------------------------------------------------
(* database.py: the tables.  A doctor row is [id, name, working_hours], a  *)
(* patient row [id, name], an appointment row [id, doctor_id, patient_id,  *)
(* date, time, created_at]; the free-text columns no operation reads       *)
(* (specialty, contact, notes, age, gender, reason) are left out.          *)

MaxAppts == 2

D_0601 == <<"2", "0", "2", "5", "-", "0", "6", "-", "0", "1">>
D_0602 == <<"2", "0", "2", "5", "-", "0", "6", "-", "0", "2">>
T_0900 == <<"0", "9", ":", "0", "0">>
T_1000 == <<"1", "0", ":", "0", "0">>
T_1700 == <<"1", "7", ":", "0", "0">>
T_900 == <<"9", ":", "0", "0">>
WH_9_17 == T_0900 \o <<"-">> \o T_1700

\* the values CURRENT_TIMESTAMP can yield
Timestamps == {"2025-05-30 08:00:00"}

MSG_UNIQUE == "UNIQUE constraint failed: appointments.doctor_id, appointments.date, appointments.time"
MSG_NOTNULL == "NOT NULL constraint failed"

\* fetchone() with no row: None
NoRow == [id |-> 0, name |-> Null, working_hours |-> Null]

NextId_reused(seq) == IF seq = 0 THEN 1 ELSE seq

\* AUTOINCREMENT: one more than the largest id the table ever held
NextId(seq) == seq + 1

get_doctor(doctor_id) ==
    IF \E d \in doctors : d.id = doctor_id
    THEN CHOOSE d \in doctors : d.id = doctor_id
    ELSE NoRow

get_doctors == doctors

get_patients == patients

get_patient(patient_id) ==
    IF \E p \in patients : p.id = patient_id
    THEN CHOOSE p \in patients : p.id = patient_id
    ELSE NoRow

get_appointments_by_doctor_date_time(doctor_id, date, time) ==
    {a \in appointments : a.doctor_id = doctor_id /\ a.date = date /\ a.time = time}

add_doctor(name, working_hours) ==
    /\ doctors' = doctors \cup {[id |-> NextId(seqDoctors), name |-> name,
                                 working_hours |-> working_hours]}
    /\ seqDoctors' = NextId(seqDoctors)

add_patient(name) ==
    /\ patients' = patients \cup {[id |-> NextId(seqPatients), name |-> name]}
    /\ seqPatients' = NextId(seqPatients)

update_doctor(doctor_id, name, working_hours) ==
    doctors' = {IF d.id = doctor_id
                THEN [d EXCEPT !.name = name, !.working_hours = working_hours]
                ELSE d : d \in doctors}

update_patient(patient_id, name) ==
    patients' = {IF p.id = patient_id THEN [p EXCEPT !.name = name] ELSE p
                 : p \in patients}

delete_patient(patient_id) ==
    patients' = {p \in patients : p.id # patient_id}

delete_doctor_no_cascade(doctor_id) ==
    /\ appointments' = appointments
    /\ doctors' = {d \in doctors : d.id # doctor_id}

delete_doctor(doctor_id) ==
    /\ appointments' = {a \in appointments : a.doctor_id # doctor_id}
    /\ doctors' = {d \in doctors : d.id # doctor_id}

delete_appointment(appointment_id) ==
    appointments' = {a \in appointments : a.id # appointment_id}

UniqueViolated_unchecked(doctor_id, date, time) == FALSE

\* UNIQUE (doctor_id, date, time)
UniqueViolated(doctor_id, date, time) ==
    \E a \in appointments :
        a.doctor_id = doctor_id /\ a.date = date /\ a.time = time

\* date TEXT NOT NULL, time TEXT NOT NULL
NotNullViolated(date, time) == date = Null \/ time = Null

\* sqlite3.IntegrityError: the INSERT is rolled back
IntegrityError(doctor_id, date, time) ==
    NotNullViolated(date, time) \/ UniqueViolated(doctor_id, date, time)

add_appointment_result_always_ok(doctor_id, date, time) ==
    [success |-> TRUE, message |-> NoMsg]

\* what add_appointment returns: (success, error_message)
add_appointment_result(doctor_id, date, time) ==
    IF NotNullViolated(date, time)
    THEN [success |-> FALSE, message |-> MSG_NOTNULL]
    ELSE IF UniqueViolated(doctor_id, date, time)
    THEN [success |-> FALSE, message |-> MSG_UNIQUE]
    ELSE [success |-> TRUE, message |-> NoMsg]

\* now: the value of CURRENT_TIMESTAMP when the row is inserted
add_appointment(doctor_id, patient_id, date, time, now) ==
    IF IntegrityError(doctor_id, date, time)
    THEN UNCHANGED <<appointments, seqAppts>>
    ELSE /\ appointments' = appointments \cup
                {[id |-> NextId(seqAppts), doctor_id |-> doctor_id,
                  patient_id |-> patient_id, date |-> date, time |-> time,
                  created_at |-> now]}
         /\ seqAppts' = NextId(seqAppts)

----------------------------------------------------------------------------
(* get_appointments: LEFT JOIN, ORDER BY date DESC, time DESC, LIMIT *)

\* code points, for the BINARY collation of TEXT columns
Ord(c) ==
    CASE c = " " -> 32 [] c = "-" -> 45 [] c = ":" -> 58
      [] c \in Digits -> 48 + DigitVal(c)
      [] OTHER -> 120

RECURSIVE TextLess(_, _)
TextLess(a, b) ==
    IF b = <<>> THEN FALSE
    ELSE IF a = <<>> THEN TRUE
    ELSE IF Head(a) = Head(b) THEN TextLess(Tail(a), Tail(b))
    ELSE Ord(Head(a)) < Ord(Head(b))

\* a sorts no later than b under ORDER BY date DESC, time DESC
SortsBefore(a, b) ==
    \/ TextLess(b.date, a.date)
    \/ a.date = b.date /\ (TextLess(b.time, a.time) \/ a.time = b.time)

DoctorName(doctor_id) ==
    IF \E d \in doctors : d.id = doctor_id
    THEN (CHOOSE d \in doctors : d.id = doctor_id).name
    ELSE Null

PatientName(patient_id) ==
    IF \E p \in patients : p.id = patient_id
    THEN (CHOOSE p \in patients : p.id = patient_id).name
    ELSE Null

\* a.*, d.name as doctor_name, p.name as patient_name
Joined(a) ==
    [id |-> a.id, doctor_id |-> a.doctor_id, patient_id |-> a.patient_id,
     date |-> a.date, time |-> a.time, created_at |-> a.created_at,
     doctor_name |-> DoctorName(a.doctor_id),
     patient_name |-> PatientName(a.patient_id)]

LeftJoin_inner ==
    {Joined(a) : a \in {b \in appointments :
                            /\ \E d \in doctors : d.id = b.doctor_id
                            /\ \E q \in patients : q.id = b.patient_id}}

LeftJoin == {Joined(a) : a \in appointments}

\* the orders the sort may produce: rows that compare equal come in any order
RECURSIVE OrderBy(_)
OrderBy(rows) ==
    IF rows = {} THEN {<<>>}
    ELSE UNION {{<<r>> \o rest : rest \in OrderBy(rows \ {r})}
                : r \in {x \in rows : \A y \in rows : SortsBefore(x, y)}}

\* LIMIT n; a negative n is no limit
Limit(rows, n) ==
    IF n < 0 \/ n >= Len(rows) THEN rows ELSE SubSeq(rows, 1, n)

get_appointments(limit) == {Limit(rows, limit) : rows \in OrderBy(LeftJoin)}

----------------------------------------------------------------------------
(* Calls of the database functions, each one transaction *)

DoctorNames == {<<"A">>, <<"B">>}
PatientNames == {<<"P">>}
HoursArgs == {WH_9_17}
DateArgs == {D_0601, D_0602}
TimeArgs == {T_900, T_1000}
LimitArgs == 0..MaxAppts

\* the ids the bounded sqlite_sequence counters can hand out
DoctorIds == {1, 2}
PatientIds == {1, 2}
ApptIds == 1..MaxAppts

NoRet == [success |-> FALSE, message |-> NoMsg]

\* a call and its result: op, the id or doctor_id argument, the date, time
\* and limit arguments, the returned tuple and the returned rows
Call(op, id, date, time, limit, ret, rows) ==
    [op |-> op, id |-> id, date |-> date, time |-> time, limit |-> limit,
     ret |-> ret, rows |-> rows]

NoCall == Call("none", 0, Null, Null, 0, NoRet, <<>>)

CallAddDoctor(name, working_hours) ==
    /\ NextId(seqDoctors) \in DoctorIds
    /\ add_doctor(name, working_hours)
    /\ lastcall' = Call("add_doctor", 0, Null, Null, 0, NoRet, <<>>)
    /\ UNCHANGED <<patients, appointments, seqPatients, seqAppts>>

CallAddPatient(name) ==
    /\ NextId(seqPatients) \in PatientIds
    /\ add_patient(name)
    /\ lastcall' = Call("add_patient", 0, Null, Null, 0, NoRet, <<>>)
    /\ UNCHANGED <<doctors, appointments, seqDoctors, seqAppts>>

CallUpdateDoctor(doctor_id, name, working_hours) ==
    /\ update_doctor(doctor_id, name, working_hours)
    /\ lastcall' = Call("update_doctor", 0, Null, Null, 0, NoRet, <<>>)
    /\ UNCHANGED <<patients, appointments, seqDoctors, seqPatients, seqAppts>>

CallUpdatePatient(patient_id, name) ==
    /\ update_patient(patient_id, name)
    /\ lastcall' = Call("update_patient", 0, Null, Null, 0, NoRet, <<>>)
    /\ UNCHANGED <<doctors, appointments, seqDoctors, seqPatients, seqAppts>>

CallDeletePatient(patient_id) ==
    /\ delete_patient(patient_id)
    /\ lastcall' = Call("delete_patient", patient_id, Null, Null, 0, NoRet, <<>>)
    /\ UNCHANGED <<doctors, appointments, seqDoctors, seqPatients, seqAppts>>

CallDeleteDoctor(doctor_id) ==
    /\ delete_doctor(doctor_id)
    /\ lastcall' = Call("delete_doctor", doctor_id, Null, Null, 0, NoRet, <<>>)
    /\ UNCHANGED <<patients, seqDoctors, seqPatients, seqAppts>>

CallDeleteAppointment(appointment_id) ==
    /\ delete_appointment(appointment_id)
    /\ lastcall' = Call("delete_appointment", 0, Null, Null, 0, NoRet, <<>>)
    /\ UNCHANGED <<doctors, patients, seqDoctors, seqPatients, seqAppts>>

CallAddAppointment(doctor_id, patient_id, date, time, now) ==
    /\ IntegrityError(doctor_id, date, time) \/ seqAppts < MaxAppts
    /\ add_appointment(doctor_id, patient_id, date, time, now)
    /\ lastcall' = Call("add_appointment", doctor_id, date, time, 0,
                        add_appointment_result(doctor_id, date, time), <<>>)
    /\ UNCHANGED <<doctors, patients, seqDoctors, seqPatients>>

CallGetAppointments(limit) ==
    /\ \E rows \in get_appointments(limit) :
           lastcall' = Call("get_appointments", 0, Null, Null, limit, NoRet, rows)
    /\ UNCHANGED <<doctors, patients, appointments, seqDoctors, seqPatients, seqAppts>>

InitDb ==
    /\ doctors = {}
    /\ patients = {}
    /\ appointments = {}
    /\ seqDoctors = 0
    /\ seqPatients = 0
    /\ seqAppts = 0
    /\ lastcall = NoCall

Sessions == {1, 2}

\* the locals of a book_appointment run before the form is submitted
NoForm ==
    [pid |-> 0, did |-> 0, date |-> Null, time |-> Null, ok_date |-> FALSE,
     ok_time |-> FALSE, within |-> FALSE, clear |-> FALSE, outcome |-> "none"]

InitUi ==
    /\ pc = [s \in Sessions |-> "idle"]
    /\ form = [s \in Sessions |-> NoForm]

\* no Patients page interaction yet
NoClick == [session |-> 0, button |-> "none", id |-> 0]

InitEdit ==
    /\ session_state = [s \in Sessions |-> 0]
    /\ edit_form = [s \in Sessions |-> 0]
    /\ click = NoClick

NoUtilRet == [fn |-> "none", ok |-> FALSE, msg |-> NoMsg]

InitUtil ==
    /\ arg_t = <<>>
    /\ arg_w = Null
    /\ util_ret = NoUtilRet

Init == InitDb /\ InitUi /\ InitUtil /\ InitEdit

NextDb ==
    \/ \E n \in DoctorNames, w \in HoursArgs :
           CallAddDoctor(n, w) /\ UNCHANGED <<uivars, utilvars, editvars>>
    \/ \E n \in PatientNames :
           CallAddPatient(n) /\ UNCHANGED <<uivars, utilvars, editvars>>
    \/ \E d \in DoctorIds, n \in DoctorNames, w \in HoursArgs :
           CallUpdateDoctor(d, n, w) /\ UNCHANGED <<uivars, utilvars, editvars>>
    \/ \E p \in PatientIds, n \in PatientNames :
           CallUpdatePatient(p, n) /\ UNCHANGED <<uivars, utilvars, editvars>>
    \/ \E p \in PatientIds :
           CallDeletePatient(p) /\ UNCHANGED <<uivars, utilvars, editvars>>
    \/ \E d \in DoctorIds :
           CallDeleteDoctor(d) /\ UNCHANGED <<uivars, utilvars, editvars>>
    \/ \E a \in ApptIds :
           CallDeleteAppointment(a) /\ UNCHANGED <<uivars, utilvars, editvars>>
    \/ \E d \in DoctorIds, p \in PatientIds, x \in DateArgs, t \in TimeArgs,
          now \in Timestamps :
           CallAddAppointment(d, p, x, t, now) /\ UNCHANGED <<uivars, utilvars, editvars>>
    \/ \E n \in LimitArgs :
           CallGetAppointments(n) /\ UNCHANGED <<uivars, utilvars, editvars>>

SpecDb == Init /\ [][NextDb]_vars

----------------------------------------------------------------------------
(* Properties of the database functions, checked under SpecDb *)

Matching(doctor_id, date, time) ==
    {a \in appointments : a.doctor_id = doctor_id /\ a.date = date /\ a.time = time}

\* C1: for every doctor id, date and time the appointments table holds at
\* most one row with that (doctor_id, date, time)
C1_AtMostOnePerSlot ==
    \A a, b \in appointments :
        (a.doctor_id = b.doctor_id /\ a.date = b.date /\ a.time = b.time) => a = b

\* a second insert for a stored triple was attempted and two rows are held
C1_Witness ==
    /\ lastcall.op = "add_appointment"
    /\ lastcall.ret.message = MSG_UNIQUE
    /\ Cardinality(appointments) = 2

\* C2: add_appointment for a (doctor_id, date, time) that already has a row
\* returns (False, message) and leaves the table as it was; for a triple
\* without a row it succeeds and the table then holds exactly one such row
C2_DuplicateRejected ==
    [][lastcall'.op = "add_appointment" =>
        LET d == lastcall'.id
            x == lastcall'.date
            t == lastcall'.time
        IN  IF Matching(d, x, t) # {}
            THEN /\ lastcall'.ret.success = FALSE
                 /\ lastcall'.ret.message # NoMsg
                 /\ appointments' = appointments
                 /\ seqAppts' = seqAppts
            ELSE x # Null =>
                 /\ lastcall'.ret.success = TRUE
                 /\ Cardinality({a \in appointments' :
                        a.doctor_id = d /\ a.date = x /\ a.time = t}) = 1]_vars

\* the second booking of a triple has just failed and one matching row is held
C2_Witness ==
    /\ lastcall.op = "add_appointment"
    /\ lastcall.ret.success = FALSE
    /\ lastcall.ret.message = MSG_UNIQUE
    /\ Cardinality(Matching(lastcall.id, lastcall.date, lastcall.time)) = 1

\* C6: delete_doctor(d) removes the doctor row d and exactly the appointments
\* of d, nothing else; delete_patient(p) removes only the patient row p and
\* leaves the appointments table unchanged
C6_DeleteFrames ==
    [][/\ lastcall'.op = "delete_doctor" =>
            /\ doctors' = {r \in doctors : r.id # lastcall'.id}
            /\ appointments \ appointments' =
                   {a \in appointments : a.doctor_id = lastcall'.id}
            /\ appointments' \subseteq appointments
            /\ patients' = patients
       /\ lastcall'.op = "delete_patient" =>
            /\ patients' = {r \in patients : r.id # lastcall'.id}
            /\ appointments' = appointments
            /\ doctors' = doctors]_vars

\* doctor 1 has just been deleted, no appointment of doctor 1 is left, and an
\* appointment of doctor 2 remains whose patient row has been deleted
C6_Witness ==
    /\ lastcall.op = "delete_doctor"
    /\ lastcall.id = 1
    /\ seqAppts = 2
    /\ \E a \in appointments :
           /\ a.doctor_id = 2
           /\ a.patient_id = 1
           /\ \A q \in patients : q.id # 1
    /\ \E q \in patients : q.id = 2

\* C7 as stated: a successful add_appointment returns the new id and the
\* creation timestamp of the inserted row
C7_ReturnsIdAndTimestamp ==
    (lastcall.op = "add_appointment" /\ lastcall.ret.success) =>
        /\ "id" \in DOMAIN lastcall.ret
        /\ "created_at" \in DOMAIN lastcall.ret

\* C7 amended: a successful add_appointment returns exactly (True, None);
\* the new id (larger than every id the table ever held) and the creation
\* timestamp are stored in the one inserted row and are not returned
C7_ReturnsFlagOnly ==
    [][(lastcall'.op = "add_appointment" /\ lastcall'.ret.success) =>
        /\ lastcall'.ret = [success |-> TRUE, message |-> NoMsg]
        /\ DOMAIN lastcall'.ret = {"success", "message"}
        /\ appointments \subseteq appointments'
        /\ \E r \in appointments' \ appointments :
               /\ appointments' = appointments \cup {r}
               /\ r.id = seqAppts + 1
               /\ r.id = seqAppts'
               /\ \A a \in appointments : a.id < r.id
               /\ r.created_at \in Timestamps]_vars

\* the second successful insert has just been made
C7_Witness ==
    /\ lastcall.op = "add_appointment"
    /\ lastcall.ret.success
    /\ \E r \in appointments : r.id = 2

\* C9: get_appointments(limit) returns min(limit, number of rows) rows (all
\* of them for a negative limit), ordered by the stored date descending and
\* then the stored time descending, the first rows of that order; each is a
\* stored appointment with doctor_name and patient_name taken from the
\* referenced rows, or None where the referenced row does not exist
C9_Listing ==
    lastcall.op = "get_appointments" =>
        LET rows == lastcall.rows
            n == lastcall.limit
            total == Cardinality(appointments)
        IN  /\ Len(rows) = (IF n < 0 \/ n > total THEN total ELSE n)
            /\ \A i, j \in 1..Len(rows) : i < j =>
                   /\ rows[i].id # rows[j].id
                   /\ ~TextLess(rows[i].date, rows[j].date)
                   /\ rows[i].date = rows[j].date =>
                          ~TextLess(rows[i].time, rows[j].time)
            /\ \A i \in 1..Len(rows) :
                   /\ \E a \in appointments :
                          /\ a.id = rows[i].id
                          /\ a.doctor_id = rows[i].doctor_id
                          /\ a.patient_id = rows[i].patient_id
                          /\ a.date = rows[i].date
                          /\ a.time = rows[i].time
                          /\ a.created_at = rows[i].created_at
                   /\ \A d \in doctors : d.id = rows[i].doctor_id =>
                          rows[i].doctor_name = d.name
                   /\ (\A d \in doctors : d.id # rows[i].doctor_id) =>
                          rows[i].doctor_name = Null
                   /\ \A q \in patients : q.id = rows[i].patient_id =>
                          rows[i].patient_name = q.name
                   /\ (\A q \in patients : q.id # rows[i].patient_id) =>
                          rows[i].patient_name = Null
            /\ \A a \in appointments :
                   (\A i \in 1..Len(rows) : rows[i].id # a.id) =>
                       \A i \in 1..Len(rows) :
                           /\ ~TextLess(rows[i].date, a.date)
                           /\ rows[i].date = a.date => ~TextLess(rows[i].time, a.time)

\* a listing of two rows on different dates, the first with a resolved doctor
\* name and no patient row, the second with no doctor row
C9_Witness ==
    /\ lastcall.op = "get_appointments"
    /\ Len(lastcall.rows) = 2
    /\ lastcall.rows[1].date # lastcall.rows[2].date
    /\ TextLess(lastcall.rows[1].time, lastcall.rows[2].time)
    /\ lastcall.rows[1].doctor_name \in DoctorNames
    /\ lastcall.rows[1].patient_name = Null
    /\ lastcall.rows[2].doctor_name = Null

----------------------------------------------------------------------------
(* The validators of utils.py applied to typed strings *)

MaxTimeLen == 5
MaxTokens == 4

TimeChars == {"0", "2", "3", "4", "6", "9", ":", " "}

TypeChar(c) ==
    /\ Len(arg_t) < MaxTimeLen
    /\ arg_t' = Append(arg_t, c)
    /\ util_ret' = NoUtilRet
    /\ UNCHANGED arg_w

CallValidateTime ==
    /\ util_ret.fn = "none"
    /\ LET r == validate_time_str(arg_t)
       IN  util_ret' = [fn |-> "validate_time_str", ok |-> r[1], msg |-> r[2]]
    /\ UNCHANGED <<arg_t, arg_w>>

NextTime ==
    \/ \E c \in TimeChars : TypeChar(c) /\ UNCHANGED <<dbvars, uivars, editvars>>
    \/ CallValidateTime /\ UNCHANGED <<dbvars, uivars, editvars>>

SpecTime == Init /\ [][NextTime]_vars

T_0859 == <<"0", "8", ":", "5", "9">>
T_1659 == <<"1", "6", ":", "5", "9">>
T_2400 == <<"2", "4", ":", "0", "0">>

\* the pieces working_hours values are put together from
WTokens == {T_0900, T_1700, T_900, T_2400, <<" ">>, <<"-">>}

RECURSIVE Concat(_)
Concat(toks) == IF toks = <<>> THEN <<>> ELSE Head(toks) \o Concat(Tail(toks))

WInputs ==
    {Null} \cup {Concat(toks) : toks \in UNION {[1..n -> WTokens] : n \in 0..MaxTokens}}

TInputs == {T_0859, T_0900, T_1659, T_1700, T_900, T_2400}

InitHours ==
    /\ InitDb
    /\ InitUi
    /\ InitEdit
    /\ arg_w \in WInputs
    /\ arg_t \in TInputs
    /\ util_ret = NoUtilRet

CallTimeInWorkingHours ==
    /\ util_ret.fn = "none"
    /\ LET r == time_in_working_hours(arg_w, arg_t)
       IN  util_ret' = [fn |-> "time_in_working_hours", ok |-> r[1], msg |-> r[2]]
    /\ UNCHANGED <<arg_t, arg_w>>

NextHours == CallTimeInWorkingHours /\ UNCHANGED <<dbvars, uivars, editvars>>

SpecHours == InitHours /\ [][NextHours]_vars

\* a 2-digit hour 00-23, a colon, a 2-digit minute 00-59
IsHHMM(s) ==
    /\ Len(s) = 5
    /\ s[3] = ":"
    /\ \A i \in {1, 2, 4, 5} : s[i] \in Digits
    /\ 10 * DigitVal(s[1]) + DigitVal(s[2]) <= 23
    /\ 10 * DigitVal(s[4]) + DigitVal(s[5]) <= 59

\* C5: validate_time_str(t) is valid exactly for the strings HH:MM with hour
\* 00-23 and minute 00-59, and returns a message with every invalid result
C5_ValidIffHHMM ==
    util_ret.fn = "validate_time_str" =>
        /\ util_ret.ok <=> IsHHMM(arg_t)
        /\ ~util_ret.ok => util_ret.msg # NoMsg

MinuteOfDay(p) == 60 * p.hour + p.minute

Valid(s) == validate_time_str(s)[1]

\* C4 as stated: for a format-valid T, T is permitted iff W is null or empty,
\* or W splits at the hyphen into exactly two parts that each pass
\* validate_time_str, with start <= T < end; a rejection carries a message
C4_PermittedIffParts ==
    (util_ret.fn = "time_in_working_hours" /\ Valid(arg_t)) =>
        /\ util_ret.ok <=>
               \/ arg_w = Null
               \/ arg_w = <<>>
               \/ LET parts == Split(arg_w, "-")
                  IN  /\ Len(parts) = 2
                      /\ Valid(parts[1])
                      /\ Valid(parts[2])
                      /\ MinuteOfDay(parse_time(parts[1])) <= MinuteOfDay(parse_time(arg_t))
                      /\ MinuteOfDay(parse_time(arg_t)) < MinuteOfDay(parse_time(parts[2]))
        /\ ~util_ret.ok => util_ret.msg # NoMsg

\* C4 amended: the two parts are validated after the whitespace around each
\* of them is stripped
C4_PermittedIffStrippedParts ==
    (util_ret.fn = "time_in_working_hours" /\ Valid(arg_t)) =>
        /\ util_ret.ok <=>
               \/ arg_w = Null
               \/ arg_w = <<>>
               \/ LET parts == Split(arg_w, "-")
                  IN  /\ Len(parts) = 2
                      /\ Valid(Strip(parts[1]))
                      /\ Valid(Strip(parts[2]))
                      /\ MinuteOfDay(parse_time(Strip(parts[1])))
                             <= MinuteOfDay(parse_time(arg_t))
                      /\ MinuteOfDay(parse_time(arg_t))
                             < MinuteOfDay(parse_time(Strip(parts[2])))
        /\ ~util_ret.ok => util_ret.msg # NoMsg

\* "09:00 -17:00" permits its start boundary 09:00
C4_Witness ==
    /\ util_ret.fn = "time_in_working_hours"
    /\ util_ret.ok
    /\ arg_w = T_0900 \o <<" ", "-">> \o T_1700
    /\ arg_t = T_0900

----------------------------------------------------------------------------
(* app.py: the pages, one script run per interaction.  A session's run is  *)
(* a sequence of steps, one per database call; between two steps the other *)
(* sessions' calls may take place.                                         *)

UiDoctorNames == {<<"A">>}
UiPatientNames == {<<"P">>}
UiPatientIds == {1}
UiHoursInputs == {<<>>, WH_9_17, <<"9", "-", "5">>}
UiTimeInputs == {T_1000, <<" ">> \o T_1000, T_1700, T_2400}
\* what st.date_input delivers: a datetime.date
UiDateInputs == {[year |-> 2025, month |-> 6, day |-> 1]}

Ids(rows) == {r.id : r \in rows}

\* app.py 115-117: the basic validation of the working hours field
WorkingHoursAccepted(working_hours) ==
    LET parts == Split(working_hours, "-")
    IN  /\ Len(parts) = 2
        /\ validate_time_str(Strip(parts[1]))[1]
        /\ validate_time_str(Strip(parts[2]))[1]

\* the add_doctor form
UiAddDoctor(s, name, working_hours) ==
    /\ pc[s] = "idle"
    /\ NextId(seqDoctors) \in DoctorIds
    /\ IF Strip(name) = <<>>
       THEN UNCHANGED <<doctors, seqDoctors>>
       ELSE IF working_hours # <<>>
       THEN IF ~WorkingHoursAccepted(working_hours)
            THEN UNCHANGED <<doctors, seqDoctors>>
            ELSE add_doctor(Strip(name), Strip(working_hours))
       ELSE add_doctor(Strip(name), Null)
    /\ UNCHANGED <<patients, appointments, seqPatients, seqAppts, lastcall, uivars>>

\* the add_patient form
UiAddPatient(s, name) ==
    /\ pc[s] = "idle"
    /\ NextId(seqPatients) \in UiPatientIds
    /\ IF Strip(name) = <<>>
       THEN UNCHANGED <<patients, seqPatients>>
       ELSE add_patient(Strip(name))
    /\ UNCHANGED <<doctors, appointments, seqDoctors, seqAppts, lastcall, uivars>>

\* the Delete button of a listed patient is clicked: the run lists the
\* patients, then deletes
UiClickDeletePatient(s, p) ==
    /\ pc[s] = "idle"
    /\ p \in Ids(get_patients)
    /\ pc' = [pc EXCEPT ![s] = "delete_patient"]
    /\ form' = [form EXCEPT ![s] = [NoForm EXCEPT !.pid = p]]
    /\ UNCHANGED dbvars

UiDeletePatient(s) ==
    /\ pc[s] = "delete_patient"
    /\ delete_patient(form[s].pid)
    /\ pc' = [pc EXCEPT ![s] = "idle"]
    /\ form' = [form EXCEPT ![s] = NoForm]
    /\ UNCHANGED <<doctors, appointments, seqDoctors, seqPatients, seqAppts, lastcall>>

\* the Delete button of a listed doctor
UiClickDeleteDoctor(s, d) ==
    /\ pc[s] = "idle"
    /\ d \in Ids(get_doctors)
    /\ pc' = [pc EXCEPT ![s] = "delete_doctor"]
    /\ form' = [form EXCEPT ![s] = [NoForm EXCEPT !.did = d]]
    /\ UNCHANGED dbvars

UiDeleteDoctor(s) ==
    /\ pc[s] = "delete_doctor"
    /\ delete_doctor(form[s].did)
    /\ pc' = [pc EXCEPT ![s] = "idle"]
    /\ form' = [form EXCEPT ![s] = NoForm]
    /\ UNCHANGED <<patients, seqDoctors, seqPatients, seqAppts, lastcall>>

\* the Cancel Appointment button of a listed appointment; the id is kept in
\* the pid field of the locals
UiClickCancel(s, a) ==
    /\ pc[s] = "idle"
    /\ a \in Ids(appointments)
    /\ pc' = [pc EXCEPT ![s] = "cancel"]
    /\ form' = [form EXCEPT ![s] = [NoForm EXCEPT !.pid = a]]
    /\ UNCHANGED dbvars

UiCancel(s) ==
    /\ pc[s] = "cancel"
    /\ delete_appointment(form[s].pid)
    /\ pc' = [pc EXCEPT ![s] = "idle"]
    /\ form' = [form EXCEPT ![s] = NoForm]
    /\ UNCHANGED <<doctors, patients, seqDoctors, seqPatients, seqAppts, lastcall>>

Done(s, f, outcome) ==
    /\ pc' = [pc EXCEPT ![s] = "done"]
    /\ form' = [form EXCEPT ![s] = [f EXCEPT !.outcome = outcome]]

Goto(s, f, to) ==
    /\ pc' = [pc EXCEPT ![s] = to]
    /\ form' = [form EXCEPT ![s] = f]

\* Book Appointment is submitted; line 184: the patients are listed and the
\* selected one is looked up (0: there is none)
BookListPatients(s, p) ==
    /\ pc[s] = "idle"
    /\ IF get_patients = {} THEN p = 0 ELSE p \in Ids(get_patients)
    /\ Goto(s, [NoForm EXCEPT !.pid = p], "book")
    /\ UNCHANGED dbvars

\* where the run goes after the time format check (lines 216-219)
AfterTimeCheck(ok_time) == IF ok_time THEN "get_doctor" ELSE "done"

\* lines 185-218: the doctors are listed, the selected one is looked up, the
\* date and the time are formatted and validated
BookSubmit(s, d, appt_date, appt_time) ==
    /\ pc[s] = "book"
    /\ IF get_doctors = {} THEN d = 0 ELSE d \in Ids(get_doctors)
    /\ IF form[s].pid = 0 \/ d = 0
       THEN Done(s, form[s], "need_records")
       ELSE LET date_str == strftime(appt_date)
                time_str == Strip(appt_time)
                ok_date == validate_date_str(date_str)[1]
                ok_time == validate_time_str(time_str)[1]
                f == [form[s] EXCEPT !.did = d, !.date = date_str, !.time = time_str,
                                     !.ok_date = ok_date, !.ok_time = ok_time]
            IN  IF AfterTimeCheck(ok_time) = "done"
                THEN Done(s, f, "time_error")
                ELSE Goto(s, f, "get_doctor")
    /\ UNCHANGED dbvars

\* where the run goes after the working hours check (lines 223-225)
AfterHoursCheck_ignored(within) == "preflight"

AfterHoursCheck(within) == IF within THEN "preflight" ELSE "done"

\* lines 221-224: get_doctor, then doctor["working_hours"], which raises
\* TypeError when get_doctor returned None
BookGetDoctor(s) ==
    /\ pc[s] = "get_doctor"
    /\ LET doctor == get_doctor(form[s].did)
       IN  IF doctor = NoRow
           THEN Done(s, form[s], "exception")
           ELSE LET within == time_in_working_hours(doctor.working_hours, form[s].time)[1]
                    f == [form[s] EXCEPT !.within = within]
                IN  IF AfterHoursCheck(within) = "done"
                    THEN Done(s, f, "hours_error")
                    ELSE Goto(s, f, "preflight")
    /\ UNCHANGED dbvars

\* lines 227-229: the pre-flight query
BookPreflight(s) ==
    /\ pc[s] = "preflight"
    /\ LET existing == get_appointments_by_doctor_date_time(
                           form[s].did, form[s].date, form[s].time)
           f == [form[s] EXCEPT !.clear = (existing = {})]
       IN  IF existing # {}
           THEN Done(s, f, "existing")
           ELSE Goto(s, f, "add")
    /\ UNCHANGED dbvars

\* lines 231-235: add_appointment and the message shown
BookAdd(s, now) ==
    /\ pc[s] = "add"
    /\ IntegrityError(form[s].did, form[s].date, form[s].time) \/ seqAppts < MaxAppts
    /\ add_appointment(form[s].did, form[s].pid, form[s].date, form[s].time, now)
    /\ Done(s, form[s],
            IF add_appointment_result(form[s].did, form[s].date, form[s].time).success
            THEN "success" ELSE "failed")
    /\ UNCHANGED <<doctors, patients, seqDoctors, seqPatients, lastcall>>

\* the run is over; the next interaction starts a new one
Finish(s) ==
    /\ pc[s] = "done"
    /\ pc' = [pc EXCEPT ![s] = "idle"]
    /\ form' = [form EXCEPT ![s] = NoForm]
    /\ UNCHANGED dbvars

Booking(s) ==
    \/ \E p \in UiPatientIds \cup {0} : BookListPatients(s, p)
    \/ \E d \in DoctorIds \cup {0}, x \in UiDateInputs, t \in UiTimeInputs :
           BookSubmit(s, d, x, t)
    \/ BookGetDoctor(s)
    \/ BookPreflight(s)
    \/ \E now \in Timestamps : BookAdd(s, now)

Registering(s) ==
    \/ \E n \in UiDoctorNames, w \in UiHoursInputs : UiAddDoctor(s, n, w)
    \/ \E n \in UiPatientNames : UiAddPatient(s, n)

Next ==
    \E s \in Sessions :
        /\ \/ Registering(s)
           \/ Booking(s)
           \/ Finish(s)
           \/ \E p \in UiPatientIds : UiClickDeletePatient(s, p)
           \/ UiDeletePatient(s)
           \/ \E d \in DoctorIds : UiClickDeleteDoctor(s, d)
           \/ UiDeleteDoctor(s)
           \/ \E a \in ApptIds : UiClickCancel(s, a)
           \/ UiCancel(s)
        /\ UNCHANGED <<utilvars, editvars>>

Spec == Init /\ [][Next]_vars

\* two sessions that each book once, nothing being deleted
NextRace ==
    \E s \in Sessions :
        /\ \/ Registering(s)
           \/ Booking(s)
        /\ UNCHANGED <<utilvars, editvars>>

SpecRace == Init /\ [][NextRace]_vars

----------------------------------------------------------------------------
(* Properties of the booking flow *)

SameSlot(f, g) == f.did = g.did /\ f.date = g.date /\ f.time = g.time

\* C3: when two sessions run the booking flow for the same (doctor, date,
\* time), interleaved in any order, at most one reports success, exactly one
\* row is stored for the triple, and the other session ends with a reported
\* failure (the pre-flight message or the failed insert), never an exception
C3_OneWinner ==
    /\ \A s \in Sessions : form[s].outcome # "exception"
    /\ \A s1, s2 \in Sessions :
           (/\ s1 # s2
            /\ form[s1].outcome = "success"
            /\ pc[s2] = "done"
            /\ form[s2].outcome # "need_records"
            /\ SameSlot(form[s1], form[s2]))
           => /\ form[s2].outcome \in {"existing", "failed"}
              /\ Cardinality(Matching(form[s1].did, form[s1].date, form[s1].time)) = 1

\* both sessions passed the pre-flight query for the same triple; session 1
\* inserted and session 2's insert was refused
C3_Witness ==
    /\ form[1].outcome = "success"
    /\ form[2].outcome = "failed"
    /\ form[2].clear
    /\ SameSlot(form[1], form[2])

\* C8: a lookup by id that finds nothing never crashes the caller: the
\* booking flow never ends in an unhandled exception
C8_LookupNeverCrashes ==
    \A s \in Sessions : form[s].outcome # "exception"

Tables == <<doctors, patients, appointments, seqDoctors, seqPatients, seqAppts>>

\* C10: a submission reaches the working hours check only with the date and
\* the time validated, the pre-flight query only with the time within the
\* working hours, and add_appointment only with the pre-flight query empty;
\* no step of a submission before add_appointment writes to the store, and a
\* submission that ends on a failed check has not written
C10_WriteOnlyAfterChecks ==
    [][\A s \in Sessions :
        /\ pc'[s] \in {"get_doctor", "preflight", "add"} =>
               (form'[s].ok_date /\ form'[s].ok_time)
        /\ pc'[s] = "get_doctor" => (~form'[s].within /\ ~form'[s].clear)
        /\ pc'[s] \in {"preflight", "add"} => form'[s].within
        /\ pc'[s] = "preflight" => ~form'[s].clear
        /\ pc'[s] = "add" => form'[s].clear
        /\ (pc[s] \in {"book", "get_doctor", "preflight"} /\ pc'[s] # pc[s]) =>
               Tables' = Tables
        /\ (pc[s] = "add" /\ pc'[s] # pc[s]) =>
               (form[s].ok_date /\ form[s].ok_time /\ form[s].within /\ form[s].clear)
        /\ (pc[s] # "done" /\ pc'[s] = "done"
              /\ form'[s].outcome \in {"need_records", "time_error", "hours_error", "existing"})
               => Tables' = Tables]_vars

\* one submission was stopped by the working hours check and another, after
\* all its checks, has booked
C10_Witness ==
    /\ form[1].outcome = "hours_error"
    /\ form[2].outcome = "success"
    /\ appointments # {}

\* C11: in every state reachable through the UI actions of the sessions,
\* every stored appointment's doctor_id is the id of a stored doctor
C11_NoDanglingDoctor ==
    \A a \in appointments : \E d \in doctors : d.id = a.doctor_id

----------------------------------------------------------------------------
(* app.py, Patients page: the list with its Edit and Delete buttons and the
   inline edit form.  Every action is one interaction and the whole script
   run it triggers, st.experimental_rerun included. *)

EditPatientIds == {1, 2}
EditNames == {<<"P">>, <<" ", "Q">>}

\* dict.setdefault on the "editing_patient" key of st.session_state
setdefault(state, value) == IF state = 0 THEN value ELSE state

\* the edit form block at the end of the page: which form is rendered
EditForm(pid, patient) == IF pid # 0 /\ patient.id # 0 THEN pid ELSE 0

\* the end of the run of session s, evaluated on what the run has written
RenderEditForm(s) ==
    edit_form' = [edit_form EXCEPT
                     ![s] = EditForm(session_state[s], get_patient(session_state[s]))']

Clicked(s, button, id) ==
    click' = [session |-> s, button |-> button, id |-> id]

\* the add_patient form is submitted
PatientsAdd(s, name) ==
    /\ pc[s] = "idle"
    /\ NextId(seqPatients) \in EditPatientIds
    /\ IF Strip(name) = <<>>
       THEN UNCHANGED <<patients, seqPatients>>
       ELSE add_patient(Strip(name))
    /\ UNCHANGED session_state
    /\ RenderEditForm(s)
    /\ Clicked(s, "Add Patient", 0)
    /\ UNCHANGED <<doctors, appointments, seqDoctors, seqAppts, lastcall>>

\* the Edit button of the listed patient p is clicked
PatientsClickEdit(s, p) ==
    /\ pc[s] = "idle"
    /\ p \in Ids(get_patients)
    /\ session_state' = [session_state EXCEPT ![s] = setdefault(session_state[s], p)]
    /\ UNCHANGED <<patients, seqPatients>>
    /\ RenderEditForm(s)
    /\ Clicked(s, "Edit", p)
    /\ UNCHANGED <<doctors, appointments, seqDoctors, seqAppts, lastcall>>

\* the Delete button of the listed patient p is clicked: the row is deleted
\* and the script is run again
PatientsClickDelete(s, p) ==
    /\ pc[s] = "idle"
    /\ p \in Ids(get_patients)
    /\ delete_patient(p)
    /\ UNCHANGED <<seqPatients, session_state>>
    /\ RenderEditForm(s)
    /\ Clicked(s, "Delete", p)
    /\ UNCHANGED <<doctors, appointments, seqDoctors, seqAppts, lastcall>>

\* the Save button of the edit form on the page is clicked; the form is
\* rendered again, and its button read, only if the patient is still stored
PatientsClickSave(s, name) ==
    /\ pc[s] = "idle"
    /\ edit_form[s] # 0
    /\ LET pid == session_state[s]
       IN  IF EditForm(pid, get_patient(pid)) # 0
           THEN /\ update_patient(pid, Strip(name))
                /\ session_state' = [session_state EXCEPT ![s] = 0]
           ELSE UNCHANGED <<patients, session_state>>
    /\ UNCHANGED seqPatients
    /\ RenderEditForm(s)
    /\ Clicked(s, "Save", edit_form[s])
    /\ UNCHANGED <<doctors, appointments, seqDoctors, seqAppts, lastcall>>

NextEdit ==
    \E s \in Sessions :
        /\ \/ \E n \in UiPatientNames : PatientsAdd(s, n)
           \/ \E p \in EditPatientIds : PatientsClickEdit(s, p)
           \/ \E p \in EditPatientIds : PatientsClickDelete(s, p)
           \/ \E n \in EditNames : PatientsClickSave(s, n)
        /\ UNCHANGED <<uivars, utilvars>>

SpecEdit == Init /\ [][NextEdit]_vars

\* C12: after a click on Edit of a listed patient, whatever was clicked in
\* the session before, the session's editing flag is that patient's id and
\* that patient's edit form is rendered by the run
C12_EditDesignatesClicked ==
    click.button = "Edit" =>
        /\ session_state[click.session] = click.id
        /\ edit_form[click.session] = click.id

====
